---- MODULE Spec2Model ----
(***************************************************************************)
(* Multiverse versioning layer of TTA-Solo: the branch-partitioned         *)
(* entity/event store, the variant links of the graph store and the        *)
(* orchestration service (fork, travel, archive) that composes them.       *)
(***************************************************************************)
EXTENDS Integers, Sequences, FiniteSets, TLC

(* ---------------------------- bounds ----------------------------------- *)
MaxUniverses == 4      \* universe ids minted by uuid4 are 1..MaxUniverses
MaxEntities == 3       \* entity ids minted by uuid4 are 1..MaxEntities
MaxCalls == 5          \* calls made by the callers of the service and the store
MaxRelationships == 2  \* relationships held by the graph store at one time

None == 0
SystemActor == -1      \* stands for the uuid4() actor of an ownerless fork

UniverseIds == 1..MaxUniverses
EntityIds == 1..MaxEntities
\* the ids a caller passes: those minted so far and one that names nothing
KnownIds(ids, next) == {i \in ids : i <= next}
\* the (fork_reason, player_id) pairs callers fork with
ForkInputs == {<<"what-if", None>>, <<"testing", 1>>}
Locations == {None, 7}
StartLocation == CHOOSE l \in Locations : l # None
EntityTypes == {"character", "item"}
\* the timestamps callers stamp their own events with
Timestamps == {1, 2}

(* ------------------------- branch names -------------------------------- *)
Main == <<"main", 0, 0>>

\* create_fork: "user/{owner}/{id}" for an owned fork, "fork/{id}" otherwise
fork_branch_name(owner_id, id) ==
    IF owner_id # None THEN <<"user", owner_id, id>> ELSE <<"fork", 0, id>>

(* --------------------------- records ----------------------------------- *)
NoUniverse ==
    [id |-> None, dolt_branch |-> Main, parent_universe_id |-> None,
     depth |-> 0, status |-> "none", owner_id |-> None]

NoEntity ==
    [id |-> None, universe_id |-> None, type |-> "none",
     current_location_id |-> None]

create_prime_material(id) ==
    [id |-> id, dolt_branch |-> Main, parent_universe_id |-> None,
     depth |-> 0, status |-> "active", owner_id |-> None]

create_fork(parent, id, owner_id) ==
    [id |-> id, dolt_branch |-> fork_branch_name(owner_id, id),
     parent_universe_id |-> parent.id, depth |-> parent.depth + 1,
     status |-> "active", owner_id |-> owner_id]

create_fork_event(parent_universe_id, child_universe_id, actor_id, fork_reason, now) ==
    [event_type |-> "fork", universe_id |-> child_universe_id, timestamp |-> now,
     actor_id |-> actor_id, fork_reason |-> fork_reason,
     from_universe_id |-> parent_universe_id, original_entity_id |-> None]

travel_event(traveler_id, source_universe_id, destination_universe_id, copy_id, now) ==
    [event_type |-> "travel", universe_id |-> destination_universe_id, timestamp |-> now,
     actor_id |-> copy_id, fork_reason |-> "",
     from_universe_id |-> source_universe_id, original_entity_id |-> traveler_id]

is_active(universe) == universe.status = "active"
is_prime_material(universe) == universe.parent_universe_id = None
is_character(entity) == entity.type = "character"

(* --------------------- Entity/Event store ------------------------------ *)
EmptyMap == [x \in {} |-> None]
Put(f, k, v) == [x \in DOMAIN f \cup {k} |-> IF x = k THEN v ELSE f[x]]

EmptyPartition == [universes |-> EmptyMap, entities |-> EmptyMap, events |-> <<>>]

NewDolt == [branches |-> [b \in {Main} |-> EmptyPartition], current |-> Main]

ActivePartition(d) == d.branches[d.current]

WriteActive(d, p) == [d EXCEPT !.branches[d.current] = p]

branch_exists(d, name) == name \in DOMAIN d.branches

\* raises ValueError: "does not exist" / "already exists"
create_branch_error(d, name, from_branch) ==
    IF ~branch_exists(d, from_branch) THEN "does not exist"
    ELSE IF branch_exists(d, name) THEN "already exists"
    ELSE ""

\* a create_branch that copies over a branch that already exists
create_branch_overwrite(d, name, from_branch) ==
    IF ~branch_exists(d, from_branch) THEN d
    ELSE [d EXCEPT !.branches = Put(d.branches, name, d.branches[from_branch])]

\* a create_branch whose new branch starts empty
create_branch_empty(d, name, from_branch) ==
    IF create_branch_error(d, name, from_branch) # "" THEN d
    ELSE [d EXCEPT !.branches = Put(d.branches, name, EmptyPartition)]

create_branch(d, name, from_branch) ==
    IF create_branch_error(d, name, from_branch) # "" THEN d
    ELSE [d EXCEPT !.branches = Put(d.branches, name, d.branches[from_branch])]

checkout_branch_error(d, name) ==
    IF ~branch_exists(d, name) THEN "does not exist" ELSE ""

\* a checkout that switches to the name without looking for the branch
checkout_branch_unchecked(d, name) == [d EXCEPT !.current = name]

checkout_branch(d, name) ==
    IF checkout_branch_error(d, name) # "" THEN d
    ELSE [d EXCEPT !.current = name]

\* a delete_branch that refuses the active branch only
delete_branch_error_root_allowed(d, name) ==
    IF name = d.current THEN "Cannot delete the current branch"
    ELSE ""

delete_branch_error(d, name) ==
    IF name = Main THEN "Cannot delete main"
    ELSE IF name = d.current THEN "Cannot delete the current branch"
    ELSE ""

\* a delete_branch that spares only the root branch
delete_branch_current_too(d, name) ==
    IF name = Main THEN d
    ELSE [d EXCEPT !.branches = [b \in DOMAIN d.branches \ {name} |-> d.branches[b]]]

delete_branch(d, name) ==
    IF delete_branch_error(d, name) # "" THEN d
    ELSE [d EXCEPT !.branches = [b \in DOMAIN d.branches \ {name} |-> d.branches[b]]]

save_universe(d, universe) ==
    WriteActive(d, [ActivePartition(d) EXCEPT
                        !.universes = Put(@, universe.id, universe)])

get_universe(d, universe_id) ==
    IF universe_id \in DOMAIN ActivePartition(d).universes
    THEN ActivePartition(d).universes[universe_id]
    ELSE NoUniverse

save_entity(d, entity) ==
    WriteActive(d, [ActivePartition(d) EXCEPT
                        !.entities = Put(@, entity.id, entity)])

\* a get_entity that looks the id up without comparing the universe
get_entity_any_universe(d, entity_id, universe_id) ==
    IF entity_id \in DOMAIN ActivePartition(d).entities
    THEN ActivePartition(d).entities[entity_id]
    ELSE NoEntity

get_entity(d, entity_id, universe_id) ==
    IF /\ entity_id \in DOMAIN ActivePartition(d).entities
       /\ ActivePartition(d).entities[entity_id].universe_id = universe_id
    THEN ActivePartition(d).entities[entity_id]
    ELSE NoEntity

\* an append_event that starts the log over
append_event_overwrite(d, event) ==
    WriteActive(d, [ActivePartition(d) EXCEPT !.events = <<event>>])

append_event(d, event) ==
    WriteActive(d, [ActivePartition(d) EXCEPT !.events = Append(@, event)])

\* a stable sort by timestamp: an event goes after those not later than it
insert_by_timestamp(sorted, event) ==
    LET k == Cardinality({i \in 1..Len(sorted) : sorted[i].timestamp <= event.timestamp})
    IN  SubSeq(sorted, 1, k) \o <<event>> \o SubSeq(sorted, k + 1, Len(sorted))

RECURSIVE sort_by_timestamp(_)
sort_by_timestamp(events) ==
    IF events = <<>> THEN <<>>
    ELSE insert_by_timestamp(sort_by_timestamp(SubSeq(events, 1, Len(events) - 1)),
                             events[Len(events)])

\* a get_events that returns the events in the order they were appended
get_events_as_appended(d, universe_id) ==
    SelectSeq(ActivePartition(d).events, LAMBDA e : e.universe_id = universe_id)

get_events(d, universe_id) ==
    sort_by_timestamp(SelectSeq(ActivePartition(d).events,
                                LAMBDA e : e.universe_id = universe_id))

(* ------------------------- Graph store --------------------------------- *)
\* nodes: entity id -> properties; variant_of: set of <<variant, original>>;
\* relates: relationship id -> the RELATES edge with its properties
NewNeo4j == [nodes |-> EmptyMap, variant_of |-> {}, relates |-> EmptyMap]

\* a property that is not set is None (NULL); an id passed to a query is
\* passed as str(id), and str(None) is the string "None"
StrNone == -2
StrPrime == -3         \* the string 'prime'
str(universe_id) == IF universe_id = None THEN StrNone ELSE universe_id

Names == {"King", "Hero"}

PlainNode == [universe_id |-> None, is_variant |-> FALSE, name |-> "", type |-> ""]

\* a link created from the original to the variant
create_variant_node_reversed(g, original_entity_id, variant_entity_id, variant_universe_id) ==
    LET merged == IF original_entity_id \in DOMAIN g.nodes THEN g.nodes
                  ELSE Put(g.nodes, original_entity_id, PlainNode)
    IN [nodes |-> Put(merged, variant_entity_id,
                      [PlainNode EXCEPT !.universe_id = str(variant_universe_id),
                                        !.is_variant = TRUE]),
        variant_of |-> g.variant_of \cup {<<original_entity_id, variant_entity_id>>},
        relates |-> g.relates]


\* MERGE (original {id}) CREATE (variant {id, universe_id, is_variant: true})
\* CREATE (variant)-[:VARIANT_OF]->(original)
create_variant_node(g, original_entity_id, variant_entity_id, variant_universe_id) ==
    LET merged == IF original_entity_id \in DOMAIN g.nodes THEN g.nodes
                  ELSE Put(g.nodes, original_entity_id, PlainNode)
    IN [nodes |-> Put(merged, variant_entity_id,
                      [PlainNode EXCEPT !.universe_id = str(variant_universe_id),
                                        !.is_variant = TRUE]),
        variant_of |-> g.variant_of \cup {<<variant_entity_id, original_entity_id>>},
        relates |-> g.relates]

has_variant(g, original_entity_id, universe_id) ==
    \E l \in g.variant_of :
        /\ l[2] = original_entity_id
        /\ g.nodes[l[1]].universe_id = str(universe_id)

\* MERGE (e {id}) SET e.name, e.type, e.universe_id = str(universe_id)
register_entity(g, entity_id, name, entity_type, universe_id) ==
    LET node == IF entity_id \in DOMAIN g.nodes THEN g.nodes[entity_id] ELSE PlainNode
    IN  [g EXCEPT !.nodes = Put(g.nodes, entity_id,
                                [node EXCEPT !.name = name, !.type = entity_type,
                                             !.universe_id = str(universe_id)])]

\* get_entity_in_universe: the outcomes the three queries can give, each
\* [id, raised]; LIMIT 1 returns any one match. entity_type = "" is no type.
\* The type filter is the text "AND e.type = $entity_type" in all three
\* queries; the second query binds variant and original but no e, so with a
\* type given it is rejected by the database.
get_entity_in_universe(g, entity_name, universe_id, entity_type) ==
    LET type_filter(e) == entity_type = "" \/ g.nodes[e].type = entity_type
        Found(ids) == {[id |-> e, raised |-> FALSE] : e \in ids}
        direct == {e \in DOMAIN g.nodes :
                      /\ g.nodes[e].name = entity_name
                      /\ g.nodes[e].universe_id = str(universe_id)
                      /\ type_filter(e)}
        variant == {l[1] : l \in {k \in g.variant_of :
                      /\ g.nodes[k[2]].name = entity_name
                      /\ g.nodes[k[1]].universe_id = str(universe_id)}}
        prime == {e \in DOMAIN g.nodes :
                      /\ g.nodes[e].name = entity_name
                      /\ g.nodes[e].universe_id \in {None, StrPrime}
                      /\ ~\E l \in g.variant_of :
                            l[2] = e /\ g.nodes[l[1]].universe_id = str(universe_id)
                      /\ type_filter(e)}
    IN  IF direct # {} THEN Found(direct)
        ELSE IF entity_type # "" THEN {[id |-> None, raised |-> TRUE]}
        ELSE IF variant # {} THEN Found(variant)
        ELSE IF prime # {} THEN Found(prime)
        ELSE {[id |-> None, raised |-> FALSE]}

(* ---------------------- relationships of the graph --------------------- *)
RelationshipTypes == {"KNOWS", "FEARS"}

Remove(map, key) == [k \in DOMAIN map \ {key} |-> map[k]]

\* MERGE (e:Entity {id}): the node is created, with no property, if absent
merge_node(nodes, entity_id) ==
    IF entity_id \in DOMAIN nodes THEN nodes ELSE Put(nodes, entity_id, PlainNode)

\* MERGE (from) MERGE (to) CREATE (from)-[r:RELATES {id, type, universe_id}]->(to)
create_relationship(g, relationship) ==
    [g EXCEPT !.nodes = merge_node(merge_node(@, relationship.from_entity_id),
                                   relationship.to_entity_id),
              !.relates = Put(@, relationship.id,
                              [from_entity_id |-> relationship.from_entity_id,
                               to_entity_id |-> relationship.to_entity_id,
                               type |-> relationship.relationship_type,
                               universe_id |-> str(relationship.universe_id)])]

\* MATCH ()-[r:RELATES {id}]->() DELETE r
delete_relationship(g, relationship_id) ==
    [g EXCEPT !.relates = Remove(@, relationship_id)]

\* Relationship(id = r.id, from_entity_id = from_id, to_entity_id = to_id, ...)
record_to_relationship(r, id, from_id, to_id) ==
    [id |-> id, from_entity_id |-> from_id, to_entity_id |-> to_id,
     relationship_type |-> r.type, universe_id |-> r.universe_id]

\* the node at the other end of an edge
other_end(r, entity_id) ==
    IF r.from_entity_id = entity_id THEN r.to_entity_id ELSE r.from_entity_id

\* a get_relationships that matches outgoing edges only
get_relationships_outgoing(g, entity_id, universe_id, relationship_type) ==
    {record_to_relationship(g.relates[k], k, entity_id, other_end(g.relates[k], entity_id)) :
        k \in {i \in DOMAIN g.relates :
                 /\ g.relates[i].from_entity_id = entity_id
                 /\ g.relates[i].universe_id = str(universe_id)
                 /\ relationship_type = "" \/ g.relates[i].type = relationship_type}}

\* MATCH (e {id})-[r:RELATES]-(other) WHERE r.universe_id = $universe_id
\* [AND r.type = $rel_type] RETURN r, e.id as from_id, other.id as to_id:
\* the pattern has no direction, and the row names e as from_id whichever
\* end of the edge e is. relationship_type = "" is no type.
get_relationships(g, entity_id, universe_id, relationship_type) ==
    {record_to_relationship(g.relates[k], k, entity_id, other_end(g.relates[k], entity_id)) :
        k \in {i \in DOMAIN g.relates :
                 /\ entity_id \in {g.relates[i].from_entity_id, g.relates[i].to_entity_id}
                 /\ g.relates[i].universe_id = str(universe_id)
                 /\ relationship_type = "" \/ g.relates[i].type = relationship_type}}

\* max_depth: int = 2
DefaultMaxDepth == 2

\* find_connected_entities: the query text is
\* (start)-[r:RELATES*1..$max_depth]-(connected); the bounds of a
\* variable-length pattern must be integer literals, so the database rejects
\* the query whatever the arguments are.  [ids, raised]
find_connected_entities(g, entity_id, universe_id, max_depth) ==
    [ids |-> {}, raised |-> TRUE]

\* the nodes joined to entity_id by an edge, in either direction
neighbours(g, entity_id, tags) ==
    {other_end(g.relates[k], entity_id) :
        k \in {i \in DOMAIN g.relates :
                 /\ entity_id \in {g.relates[i].from_entity_id, g.relates[i].to_entity_id}
                 /\ g.relates[i].universe_id \in tags}}

nodes_of(path) == {path[i] : i \in 1..Len(path)}

\* shortestPath: the paths of n hops from the start are extended by one hop
\* until one of them ends at to_entity_id
RECURSIVE shortest_paths(_, _, _, _, _)
shortest_paths(g, paths, to_entity_id, tags, n) ==
    LET hops == UNION {{Append(path, m) :
                          m \in neighbours(g, path[Len(path)], tags) \ nodes_of(path)} :
                      path \in paths}
        arrived == {path \in hops : path[Len(path)] = to_entity_id}
    IN  IF arrived # {} THEN arrived
        ELSE IF hops = {} \/ n = 0 THEN {}
        ELSE shortest_paths(g, hops, to_entity_id, tags, n - 1)

\* a find_path that follows the edges of every universe
find_path_any_universe(g, from_entity_id, to_entity_id, universe_id) ==
    LET tags == {g.relates[k].universe_id : k \in DOMAIN g.relates}
        found == IF from_entity_id \in DOMAIN g.nodes
                 THEN shortest_paths(g, {<<from_entity_id>>}, to_entity_id, tags,
                                     MaxEntities)
                 ELSE {}
    IN  IF found = {} THEN {[path |-> <<>>, found |-> FALSE]}
        ELSE {[path |-> path, found |-> TRUE] : path \in found}

\* MATCH path = shortestPath((from {id})-[r:RELATES*]-(to {id}))
\* WHERE ALL(rel IN r WHERE rel.universe_id = $universe_id)
\* RETURN [n IN nodes(path) | n.id]: any one shortest path, or None when the
\* query returns no row.  The outcomes, each [path, found]
find_path(g, from_entity_id, to_entity_id, universe_id) ==
    LET tags == {str(universe_id)}
        found == IF from_entity_id \in DOMAIN g.nodes
                 THEN shortest_paths(g, {<<from_entity_id>>}, to_entity_id, tags,
                                     MaxEntities)
                 ELSE {}
    IN  IF found = {} THEN {[path |-> <<>>, found |-> FALSE]}
        ELSE {[path |-> path, found |-> TRUE] : path \in found}

(* -------------------- Multiverse orchestration service ----------------- *)
NoEvent ==
    [event_type |-> "none", universe_id |-> None, timestamp |-> 0, actor_id |-> None,
     fork_reason |-> "", from_universe_id |-> None, original_entity_id |-> None]

ErrParentNotFound == "Parent universe not found"
ErrInactive == "Cannot fork from inactive universe"
ErrParentBranch == "Parent Dolt branch does not exist"

\* the error text contains "not found" / "inactive"
MentionsNotFound(error) ==
    error \in {ErrParentNotFound, "Source universe not found",
               "Destination universe not found",
               "Traveler not found in source universe"}
MentionsInactive(error) == error = ErrInactive

ForkResult(d, success, universe, fork_event, error) ==
    [dolt |-> d, success |-> success, universe |-> universe,
     fork_event |-> fork_event, error |-> error]

\* the parent lookup and status check succeed, so create_fork mints an id
fork_mints_id(d, parent_universe_id) ==
    /\ get_universe(d, parent_universe_id) # NoUniverse
    /\ is_active(get_universe(d, parent_universe_id))

\* a fork that reuses the parent's branch instead of creating one
fork_universe_shared_branch(d, parent_universe_id, fork_reason, player_id, new_id, now) ==
    LET parent == get_universe(d, parent_universe_id)
        new_universe == [create_fork(parent, new_id, player_id)
                            EXCEPT !.dolt_branch = parent.dolt_branch]
        branched == d
        saved == save_universe(checkout_branch(branched, new_universe.dolt_branch),
                               new_universe)
        actor_id == IF player_id # None THEN player_id ELSE SystemActor
        fork_event == create_fork_event(parent_universe_id, new_universe.id,
                                        actor_id, fork_reason, now)
    IN  IF parent = NoUniverse
        THEN ForkResult(d, FALSE, NoUniverse, NoEvent, ErrParentNotFound)
        ELSE IF ~is_active(parent)
        THEN ForkResult(d, FALSE, NoUniverse, NoEvent, ErrInactive)
        ELSE IF ~branch_exists(d, parent.dolt_branch)
        THEN ForkResult(d, FALSE, NoUniverse, NoEvent, ErrParentBranch)
        ELSE ForkResult(append_event(saved, fork_event), TRUE, new_universe, fork_event, "")


\* a fork that takes every child to be a child of the root
fork_universe_depth_one(d, parent_universe_id, fork_reason, player_id, new_id, now) ==
    LET parent == get_universe(d, parent_universe_id)
        new_universe == [create_fork(parent, new_id, player_id) EXCEPT !.depth = 1]
        branched == create_branch(d, new_universe.dolt_branch, parent.dolt_branch)
        saved == save_universe(checkout_branch(branched, new_universe.dolt_branch),
                               new_universe)
        actor_id == IF player_id # None THEN player_id ELSE SystemActor
        fork_event == create_fork_event(parent_universe_id, new_universe.id,
                                        actor_id, fork_reason, now)
    IN  IF parent = NoUniverse
        THEN ForkResult(d, FALSE, NoUniverse, NoEvent, ErrParentNotFound)
        ELSE IF ~is_active(parent)
        THEN ForkResult(d, FALSE, NoUniverse, NoEvent, ErrInactive)
        ELSE IF ~branch_exists(d, parent.dolt_branch)
        THEN ForkResult(d, FALSE, NoUniverse, NoEvent, ErrParentBranch)
        ELSE IF create_branch_error(d, new_universe.dolt_branch, parent.dolt_branch) # ""
        THEN ForkResult(d, FALSE, NoUniverse, NoEvent,
                        create_branch_error(d, new_universe.dolt_branch, parent.dolt_branch))
        ELSE ForkResult(append_event(saved, fork_event), TRUE, new_universe, fork_event, "")


\* a fork that looks at the parent's status after creating the branch
fork_universe_late_check(d, parent_universe_id, fork_reason, player_id, new_id, now) ==
    LET parent == get_universe(d, parent_universe_id)
        new_universe == create_fork(parent, new_id, player_id)
        branched == create_branch(d, new_universe.dolt_branch, parent.dolt_branch)
        saved == save_universe(checkout_branch(branched, new_universe.dolt_branch),
                               new_universe)
        actor_id == IF player_id # None THEN player_id ELSE SystemActor
        fork_event == create_fork_event(parent_universe_id, new_universe.id,
                                        actor_id, fork_reason, now)
    IN  IF parent = NoUniverse
        THEN ForkResult(d, FALSE, NoUniverse, NoEvent, ErrParentNotFound)
        ELSE IF ~branch_exists(d, parent.dolt_branch)
        THEN ForkResult(d, FALSE, NoUniverse, NoEvent, ErrParentBranch)
        ELSE IF create_branch_error(d, new_universe.dolt_branch, parent.dolt_branch) # ""
        THEN ForkResult(d, FALSE, NoUniverse, NoEvent,
                        create_branch_error(d, new_universe.dolt_branch, parent.dolt_branch))
        ELSE IF ~is_active(parent)
        THEN ForkResult(branched, FALSE, NoUniverse, NoEvent, ErrInactive)
        ELSE ForkResult(append_event(saved, fork_event), TRUE, new_universe, fork_event, "")


\* a fork that does not look at the parent's status
fork_universe_any_status(d, parent_universe_id, fork_reason, player_id, new_id, now) ==
    LET parent == get_universe(d, parent_universe_id)
        new_universe == create_fork(parent, new_id, player_id)
        branched == create_branch(d, new_universe.dolt_branch, parent.dolt_branch)
        saved == save_universe(checkout_branch(branched, new_universe.dolt_branch),
                               new_universe)
        actor_id == IF player_id # None THEN player_id ELSE SystemActor
        fork_event == create_fork_event(parent_universe_id, new_universe.id,
                                        actor_id, fork_reason, now)
    IN  IF parent = NoUniverse
        THEN ForkResult(d, FALSE, NoUniverse, NoEvent, ErrParentNotFound)
        ELSE IF ~branch_exists(d, parent.dolt_branch)
        THEN ForkResult(d, FALSE, NoUniverse, NoEvent, ErrParentBranch)
        ELSE IF create_branch_error(d, new_universe.dolt_branch, parent.dolt_branch) # ""
        THEN ForkResult(d, FALSE, NoUniverse, NoEvent,
                        create_branch_error(d, new_universe.dolt_branch, parent.dolt_branch))
        ELSE ForkResult(append_event(saved, fork_event), TRUE, new_universe, fork_event, "")


\* a fork that saves the child without switching to its branch
fork_universe_no_checkout(d, parent_universe_id, fork_reason, player_id, new_id, now) ==
    LET parent == get_universe(d, parent_universe_id)
        new_universe == create_fork(parent, new_id, player_id)
        branched == create_branch(d, new_universe.dolt_branch, parent.dolt_branch)
        saved == save_universe(branched, new_universe)
        actor_id == IF player_id # None THEN player_id ELSE SystemActor
        fork_event == create_fork_event(parent_universe_id, new_universe.id,
                                        actor_id, fork_reason, now)
    IN  IF parent = NoUniverse
        THEN ForkResult(d, FALSE, NoUniverse, NoEvent, ErrParentNotFound)
        ELSE IF ~is_active(parent)
        THEN ForkResult(d, FALSE, NoUniverse, NoEvent, ErrInactive)
        ELSE IF ~branch_exists(d, parent.dolt_branch)
        THEN ForkResult(d, FALSE, NoUniverse, NoEvent, ErrParentBranch)
        ELSE IF create_branch_error(d, new_universe.dolt_branch, parent.dolt_branch) # ""
        THEN ForkResult(d, FALSE, NoUniverse, NoEvent,
                        create_branch_error(d, new_universe.dolt_branch, parent.dolt_branch))
        ELSE ForkResult(append_event(saved, fork_event), TRUE, new_universe, fork_event, "")


\* a fork whose child keeps the depth of its parent
fork_universe_same_depth(d, parent_universe_id, fork_reason, player_id, new_id, now) ==
    LET parent == get_universe(d, parent_universe_id)
        new_universe == [create_fork(parent, new_id, player_id)
                            EXCEPT !.depth = parent.depth]
        branched == create_branch(d, new_universe.dolt_branch, parent.dolt_branch)
        saved == save_universe(checkout_branch(branched, new_universe.dolt_branch),
                               new_universe)
        actor_id == IF player_id # None THEN player_id ELSE SystemActor
        fork_event == create_fork_event(parent_universe_id, new_universe.id,
                                        actor_id, fork_reason, now)
    IN  IF parent = NoUniverse
        THEN ForkResult(d, FALSE, NoUniverse, NoEvent, ErrParentNotFound)
        ELSE IF ~is_active(parent)
        THEN ForkResult(d, FALSE, NoUniverse, NoEvent, ErrInactive)
        ELSE IF ~branch_exists(d, parent.dolt_branch)
        THEN ForkResult(d, FALSE, NoUniverse, NoEvent, ErrParentBranch)
        ELSE IF create_branch_error(d, new_universe.dolt_branch, parent.dolt_branch) # ""
        THEN ForkResult(d, FALSE, NoUniverse, NoEvent,
                        create_branch_error(d, new_universe.dolt_branch, parent.dolt_branch))
        ELSE ForkResult(append_event(saved, fork_event), TRUE, new_universe, fork_event, "")

fork_universe(d, parent_universe_id, fork_reason, player_id, new_id, now) ==
    LET parent == get_universe(d, parent_universe_id)
        new_universe == create_fork(parent, new_id, player_id)
        branched == create_branch(d, new_universe.dolt_branch, parent.dolt_branch)
        saved == save_universe(checkout_branch(branched, new_universe.dolt_branch),
                               new_universe)
        actor_id == IF player_id # None THEN player_id ELSE SystemActor
        fork_event == create_fork_event(parent_universe_id, new_universe.id,
                                        actor_id, fork_reason, now)
    IN  IF parent = NoUniverse
        THEN ForkResult(d, FALSE, NoUniverse, NoEvent, ErrParentNotFound)
        ELSE IF ~is_active(parent)
        THEN ForkResult(d, FALSE, NoUniverse, NoEvent, ErrInactive)
        ELSE IF ~branch_exists(d, parent.dolt_branch)
        THEN ForkResult(d, FALSE, NoUniverse, NoEvent, ErrParentBranch)
        ELSE IF create_branch_error(d, new_universe.dolt_branch, parent.dolt_branch) # ""
        THEN ForkResult(d, FALSE, NoUniverse, NoEvent,
                        create_branch_error(d, new_universe.dolt_branch, parent.dolt_branch))
        ELSE ForkResult(append_event(saved, fork_event), TRUE, new_universe, fork_event, "")

initialize_prime_material(d, new_id) == save_universe(d, create_prime_material(new_id))

\* an archive that does not spare Prime
archive_universe_any(d, universe_id) ==
    LET universe == get_universe(d, universe_id)
        archived == [universe EXCEPT !.status = "archived"]
    IN  IF universe = NoUniverse
        THEN [dolt |-> d, result |-> FALSE, raised |-> FALSE]
        ELSE IF checkout_branch_error(d, universe.dolt_branch) # ""
        THEN [dolt |-> d, result |-> FALSE, raised |-> TRUE]
        ELSE [dolt |-> save_universe(checkout_branch(d, universe.dolt_branch), archived),
              result |-> TRUE, raised |-> FALSE]

\* archive_universe: [dolt, result, raised]; checkout of a deleted branch raises
archive_universe(d, universe_id) ==
    LET universe == get_universe(d, universe_id)
        archived == [universe EXCEPT !.status = "archived"]
    IN  IF universe = NoUniverse
        THEN [dolt |-> d, result |-> FALSE, raised |-> FALSE]
        ELSE IF is_prime_material(universe)
        THEN [dolt |-> d, result |-> FALSE, raised |-> FALSE]
        ELSE IF checkout_branch_error(d, universe.dolt_branch) # ""
        THEN [dolt |-> d, result |-> FALSE, raised |-> TRUE]
        ELSE [dolt |-> save_universe(checkout_branch(d, universe.dolt_branch), archived),
              result |-> TRUE, raised |-> FALSE]

\* get_universe_lineage: the records met from universe_id up the parent ids,
\* nearest first; the walk stops at a null parent or at an id that does not
\* resolve on the active branch (n bounds the walk)
RECURSIVE lineage_walk(_, _, _)
lineage_walk(d, current_id, n) ==
    IF current_id = None \/ n = 0 THEN <<>>
    ELSE IF get_universe(d, current_id) = NoUniverse THEN <<>>
    ELSE <<get_universe(d, current_id)>>
            \o lineage_walk(d, get_universe(d, current_id).parent_universe_id, n - 1)

reverse(seq) == [i \in 1..Len(seq) |-> seq[Len(seq) + 1 - i]]

get_universe_lineage(d, universe_id) ==
    reverse(lineage_walk(d, universe_id, MaxUniverses))

\* get_fork_children: a placeholder that returns an empty list
get_fork_children(d, universe_id) == <<>>

\* a travel that moves the traveler out of the source universe
travel_prepare_move(d, traveler_id, source_universe_id, destination_universe_id, new_id) ==
    LET source == get_universe(d, source_universe_id)
        destination == get_universe(d, destination_universe_id)
        on_source == checkout_branch(d, source.dolt_branch)
        traveler == get_entity(on_source, traveler_id, source_universe_id)
        traveler_copy == [traveler EXCEPT !.id = new_id,
                                          !.universe_id = destination_universe_id,
                                          !.current_location_id = None]
        Stop(dd, raised, error) ==
            [dolt |-> dd, ok |-> FALSE, raised |-> raised, error |-> error,
             traveler |-> NoEntity, traveler_copy |-> NoEntity,
             destination |-> NoUniverse]
    IN  IF source = NoUniverse THEN Stop(d, FALSE, "Source universe not found")
        ELSE IF destination = NoUniverse
        THEN Stop(d, FALSE, "Destination universe not found")
        ELSE IF checkout_branch_error(d, source.dolt_branch) # ""
        THEN Stop(d, TRUE, "does not exist")
        ELSE IF traveler = NoEntity
        THEN Stop(on_source, FALSE, "Traveler not found in source universe")
        ELSE IF ~is_character(traveler)
        THEN [Stop(on_source, FALSE, "Only characters can travel between worlds")
                 EXCEPT !.traveler = traveler]
        ELSE [dolt |-> WriteActive(on_source, [ActivePartition(on_source) EXCEPT
                          !.entities = [e \in DOMAIN @ \ {traveler_id} |-> @[e]]]),
              ok |-> TRUE, raised |-> FALSE, error |-> "",
              traveler |-> traveler, traveler_copy |-> traveler_copy,
              destination |-> destination]


\* a travel whose copy keeps the traveler's location
travel_prepare_keep_location(d, traveler_id, source_universe_id, destination_universe_id, new_id) ==
    LET source == get_universe(d, source_universe_id)
        destination == get_universe(d, destination_universe_id)
        on_source == checkout_branch(d, source.dolt_branch)
        traveler == get_entity(on_source, traveler_id, source_universe_id)
        traveler_copy == [traveler EXCEPT !.id = new_id,
                                          !.universe_id = destination_universe_id]
        Stop(dd, raised, error) ==
            [dolt |-> dd, ok |-> FALSE, raised |-> raised, error |-> error,
             traveler |-> NoEntity, traveler_copy |-> NoEntity,
             destination |-> NoUniverse]
    IN  IF source = NoUniverse THEN Stop(d, FALSE, "Source universe not found")
        ELSE IF destination = NoUniverse
        THEN Stop(d, FALSE, "Destination universe not found")
        ELSE IF checkout_branch_error(d, source.dolt_branch) # ""
        THEN Stop(d, TRUE, "does not exist")
        ELSE IF traveler = NoEntity
        THEN Stop(on_source, FALSE, "Traveler not found in source universe")
        ELSE IF ~is_character(traveler)
        THEN [Stop(on_source, FALSE, "Only characters can travel between worlds")
                 EXCEPT !.traveler = traveler]
        ELSE [dolt |-> on_source, ok |-> TRUE, raised |-> FALSE, error |-> "",
              traveler |-> traveler, traveler_copy |-> traveler_copy,
              destination |-> destination]


\* a travel that lets any entity through
travel_prepare_any_type(d, traveler_id, source_universe_id, destination_universe_id, new_id) ==
    LET source == get_universe(d, source_universe_id)
        destination == get_universe(d, destination_universe_id)
        on_source == checkout_branch(d, source.dolt_branch)
        traveler == get_entity(on_source, traveler_id, source_universe_id)
        traveler_copy == [traveler EXCEPT !.id = new_id,
                                          !.universe_id = destination_universe_id,
                                          !.current_location_id = None]
        Stop(dd, raised, error) ==
            [dolt |-> dd, ok |-> FALSE, raised |-> raised, error |-> error,
             traveler |-> NoEntity, traveler_copy |-> NoEntity,
             destination |-> NoUniverse]
    IN  IF source = NoUniverse THEN Stop(d, FALSE, "Source universe not found")
        ELSE IF destination = NoUniverse
        THEN Stop(d, FALSE, "Destination universe not found")
        ELSE IF checkout_branch_error(d, source.dolt_branch) # ""
        THEN Stop(d, TRUE, "does not exist")
        ELSE IF traveler = NoEntity
        THEN Stop(on_source, FALSE, "Traveler not found in source universe")
        ELSE [dolt |-> on_source, ok |-> TRUE, raised |-> FALSE, error |-> "",
              traveler |-> traveler, traveler_copy |-> traveler_copy,
              destination |-> destination]

\* a travel that checks out the source branch before it looks up the destination
travel_prepare_early_checkout(d, traveler_id, source_universe_id, destination_universe_id, new_id) ==
    LET source == get_universe(d, source_universe_id)
        destination == get_universe(d, destination_universe_id)
        on_source == checkout_branch(d, source.dolt_branch)
        traveler == get_entity(on_source, traveler_id, source_universe_id)
        traveler_copy == [traveler EXCEPT !.id = new_id,
                                          !.universe_id = destination_universe_id,
                                          !.current_location_id = None]
        Stop(dd, raised, error) ==
            [dolt |-> dd, ok |-> FALSE, raised |-> raised, error |-> error,
             traveler |-> NoEntity, traveler_copy |-> NoEntity,
             destination |-> NoUniverse]
    IN  IF source = NoUniverse THEN Stop(d, FALSE, "Source universe not found")
        ELSE IF checkout_branch_error(d, source.dolt_branch) # ""
        THEN Stop(d, TRUE, "does not exist")
        ELSE IF destination = NoUniverse
        THEN Stop(on_source, FALSE, "Destination universe not found")
        ELSE IF traveler = NoEntity
        THEN Stop(on_source, FALSE, "Traveler not found in source universe")
        ELSE IF ~is_character(traveler)
        THEN [Stop(on_source, FALSE, "Only characters can travel between worlds")
                 EXCEPT !.traveler = traveler]
        ELSE [dolt |-> on_source, ok |-> TRUE, raised |-> FALSE, error |-> "",
              traveler |-> traveler, traveler_copy |-> traveler_copy,
              destination |-> destination]

\* travel_between_worlds, lines 196-232: validation and the traveler copy.
\* [dolt, ok, raised, error, traveler, traveler_copy, destination]
travel_prepare(d, traveler_id, source_universe_id, destination_universe_id, new_id) ==
    LET source == get_universe(d, source_universe_id)
        destination == get_universe(d, destination_universe_id)
        on_source == checkout_branch(d, source.dolt_branch)
        traveler == get_entity(on_source, traveler_id, source_universe_id)
        traveler_copy == [traveler EXCEPT !.id = new_id,
                                          !.universe_id = destination_universe_id,
                                          !.current_location_id = None]
        Stop(dd, raised, error) ==
            [dolt |-> dd, ok |-> FALSE, raised |-> raised, error |-> error,
             traveler |-> NoEntity, traveler_copy |-> NoEntity,
             destination |-> NoUniverse]
    IN  IF source = NoUniverse THEN Stop(d, FALSE, "Source universe not found")
        ELSE IF destination = NoUniverse
        THEN Stop(d, FALSE, "Destination universe not found")
        ELSE IF checkout_branch_error(d, source.dolt_branch) # ""
        THEN Stop(d, TRUE, "does not exist")
        ELSE IF traveler = NoEntity
        THEN Stop(on_source, FALSE, "Traveler not found in source universe")
        ELSE IF ~is_character(traveler)
        THEN [Stop(on_source, FALSE, "Only characters can travel between worlds")
                 EXCEPT !.traveler = traveler]
        ELSE [dolt |-> on_source, ok |-> TRUE, raised |-> FALSE, error |-> "",
              traveler |-> traveler, traveler_copy |-> traveler_copy,
              destination |-> destination]

\* a travel that appends its event before creating the variant link
travel_steps_event_first == <<"save_copy", "append_event", "create_variant">>

\* the order in which travel_between_worlds commits, lines 234-260
travel_steps == <<"save_copy", "create_variant", "append_event">>

(* ------------------------------ state ---------------------------------- *)
VARIABLES dolt, neo4j, nextU, nextE, pc, last, calls,
          archived   \* ids for which archive_universe has returned True

vars == <<dolt, neo4j, nextU, nextE, pc, last, calls, archived>>

\* a caller starts a call: no call is in progress
Call == pc = 0 /\ calls < MaxCalls /\ calls' = calls + 1

Feature == <<"feature", 0, 0>>

Branches == DOMAIN dolt.branches

NoRelationship ==
    [id |-> None, from_entity_id |-> None, to_entity_id |-> None,
     relationship_type |-> "", universe_id |-> None]

\* the outcome of the latest call, with its arguments
NoCall ==
    [op |-> "none", universe_id |-> None, destination_id |-> None,
     entity_id |-> None, reason |-> "", player_id |-> None,
     success |-> FALSE, raised |-> FALSE, error |-> "",
     universe |-> NoUniverse, event |-> NoEvent,
     traveler |-> NoEntity, traveler_copy |-> NoEntity,
     source_branch |-> Main, destination_branch |-> Main,
     universes |-> <<>>, entity |-> NoEntity, events |-> <<>>,
     name |-> "", entity_type |-> "",
     interleaved |-> FALSE, other_branch |-> Main,
     current_id |-> None, lineage |-> <<>>,
     relationship |-> NoRelationship, relationships |-> {},
     relationship_type |-> "", max_depth |-> 0, path |-> <<>>]

StoreCall(op) == [NoCall EXCEPT !.op = op, !.success = TRUE]

Init ==
    /\ dolt = NewDolt
    /\ neo4j = NewNeo4j
    /\ nextU = 1
    /\ nextE = 1
    /\ pc = 0
    /\ last = NoCall
    /\ calls = 0
    /\ archived = {}

(* ------------------------ service operations --------------------------- *)
InitializePrimeMaterial ==
    /\ Call
    /\ nextU \in UniverseIds
    /\ dolt' = initialize_prime_material(dolt, nextU)
    /\ nextU' = nextU + 1
    /\ last' = [NoCall EXCEPT !.op = "initialize_prime_material", !.success = TRUE,
                              !.universe = create_prime_material(nextU)]
    /\ UNCHANGED <<neo4j, nextE, pc, archived>>

ForkUniverse ==
    /\ Call
    /\ \E parent_universe_id \in KnownIds(UniverseIds, nextU), input \in ForkInputs :
          LET fork_reason == input[1]
              player_id == input[2]
              r == fork_universe(dolt, parent_universe_id, fork_reason, player_id, nextU, calls + 1)
          IN  /\ fork_mints_id(dolt, parent_universe_id) => nextU \in UniverseIds
              /\ dolt' = r.dolt
              /\ nextU' = IF fork_mints_id(dolt, parent_universe_id)
                          THEN nextU + 1 ELSE nextU
              /\ last' = [NoCall EXCEPT !.op = "fork_universe",
                                        !.universe_id = parent_universe_id,
                                        !.reason = fork_reason,
                                        !.player_id = player_id,
                                        !.success = r.success,
                                        !.error = r.error,
                                        !.universe = r.universe,
                                        !.event = r.fork_event]
    /\ UNCHANGED <<neo4j, nextE, pc, archived>>

ArchiveUniverse ==
    /\ Call
    /\ \E universe_id \in KnownIds(UniverseIds, nextU) :
          LET r == archive_universe(dolt, universe_id)
          IN  /\ dolt' = r.dolt
              /\ archived' = IF r.result THEN archived \cup {universe_id} ELSE archived
              /\ last' = [NoCall EXCEPT !.op = "archive_universe",
                                        !.universe_id = universe_id,
                                        !.success = r.result,
                                        !.raised = r.raised]
    /\ UNCHANGED <<neo4j, nextU, nextE, pc>>

\* travel_between_worlds up to the copy (lines 196-232)
TravelBegin ==
    /\ Call
    /\ \E traveler_id \in KnownIds(EntityIds, nextE),
          source_universe_id \in KnownIds(UniverseIds, nextU),
          destination_universe_id \in KnownIds(UniverseIds, nextU) :
          LET r == travel_prepare(dolt, traveler_id, source_universe_id,
                                  destination_universe_id, nextE)
          IN  /\ r.ok => nextE \in EntityIds
              /\ dolt' = r.dolt
              /\ nextE' = IF r.ok THEN nextE + 1 ELSE nextE
              /\ pc' = IF r.ok THEN 1 ELSE 0
              /\ last' = IF r.ok
                         THEN [NoCall EXCEPT !.op = "travel_between_worlds",
                                             !.universe_id = source_universe_id,
                                             !.destination_id = destination_universe_id,
                                             !.entity_id = traveler_id,
                                             !.error = "in progress",
                                             !.traveler = r.traveler,
                                             !.traveler_copy = r.traveler_copy,
                                             !.source_branch = r.dolt.current,
                                             !.destination_branch = r.destination.dolt_branch]
                         ELSE [NoCall EXCEPT !.op = "travel_between_worlds",
                                             !.universe_id = source_universe_id,
                                             !.destination_id = destination_universe_id,
                                             !.entity_id = traveler_id,
                                             !.raised = r.raised,
                                             !.error = r.error,
                                             !.traveler = r.traveler]
    /\ UNCHANGED <<neo4j, nextU, archived>>

\* after the last step the call returns TravelResult(success=True, ...)
TravelAdvance ==
    /\ pc' = IF pc = Len(travel_steps) THEN 0 ELSE pc + 1
    /\ last' = IF pc = Len(travel_steps)
               THEN [last EXCEPT !.success = TRUE, !.error = ""]
               ELSE last

\* a travel that saves the copy on whichever branch is active
TravelSaveCopy_no_checkout ==
    /\ pc > 0 /\ travel_steps[pc] = "save_copy"
    /\ dolt' = save_entity(dolt, last.traveler_copy)
    /\ TravelAdvance
    /\ UNCHANGED <<neo4j, nextU, nextE, calls, archived>>

\* lines 234-236: checkout of the destination branch raises if it is gone
TravelSaveCopy ==
    /\ pc > 0 /\ travel_steps[pc] = "save_copy"
    /\ IF checkout_branch_error(dolt, last.destination_branch) # ""
       THEN /\ pc' = 0
            /\ last' = [last EXCEPT !.raised = TRUE, !.error = "does not exist"]
            /\ dolt' = dolt
       ELSE /\ dolt' = save_entity(checkout_branch(dolt, last.destination_branch),
                                   last.traveler_copy)
            /\ TravelAdvance
    /\ UNCHANGED <<neo4j, nextU, nextE, calls, archived>>

\* lines 238-244
TravelCreateVariant ==
    /\ pc > 0 /\ travel_steps[pc] = "create_variant"
    /\ neo4j' = create_variant_node(neo4j, last.entity_id, last.traveler_copy.id,
                                    last.destination_id)
    /\ TravelAdvance
    /\ UNCHANGED <<dolt, nextU, nextE, calls, archived>>

\* lines 246-260
TravelAppendEvent ==
    /\ pc > 0 /\ travel_steps[pc] = "append_event"
    /\ dolt' = append_event(dolt, travel_event(last.entity_id, last.universe_id,
                                               last.destination_id,
                                               last.traveler_copy.id, calls))
    /\ TravelAdvance
    /\ UNCHANGED <<neo4j, nextU, nextE, calls, archived>>

(* --------------------- direct calls of the store ----------------------- *)
CheckoutBranch ==
    /\ Call
    /\ \E name \in Branches \cup {Feature} :
          /\ dolt' = checkout_branch(dolt, name)
          /\ last' = [NoCall EXCEPT !.op = "checkout_branch",
                                    !.source_branch = name,
                                    !.success = (checkout_branch_error(dolt, name) = ""),
                                    !.raised = (checkout_branch_error(dolt, name) # ""),
                                    !.error = checkout_branch_error(dolt, name)]
    /\ UNCHANGED <<neo4j, nextU, nextE, pc, archived>>

CreateBranch ==
    /\ Call
    /\ \E name \in {fork_branch_name(None, nextU)},
          from_branch \in {Main, Feature} :
          /\ dolt' = create_branch(dolt, name, from_branch)
          /\ last' = [NoCall EXCEPT !.op = "create_branch",
                                    !.destination_branch = name,
                                    !.source_branch = from_branch,
                                    !.success = (create_branch_error(dolt, name, from_branch) = ""),
                                    !.raised = (create_branch_error(dolt, name, from_branch) # ""),
                                    !.error = create_branch_error(dolt, name, from_branch)]
    /\ UNCHANGED <<neo4j, nextU, nextE, pc, archived>>

DeleteBranch ==
    /\ Call
    /\ \E name \in Branches :
          /\ dolt' = delete_branch(dolt, name)
          /\ last' = [NoCall EXCEPT !.op = "delete_branch",
                                    !.source_branch = name,
                                    !.success = (delete_branch_error(dolt, name) = ""),
                                    !.raised = (delete_branch_error(dolt, name) # ""),
                                    !.error = delete_branch_error(dolt, name)]
    /\ UNCHANGED <<neo4j, nextU, nextE, pc, archived>>

\* a caller creates an entity (create_character / create_item, then save_entity)
CreateEntity ==
    /\ Call
    /\ nextE \in EntityIds
    /\ \E universe_id \in DOMAIN ActivePartition(dolt).universes,
          type \in EntityTypes :
          LET entity == [id |-> nextE, universe_id |-> universe_id, type |-> type,
                         current_location_id |-> StartLocation]
          IN  /\ dolt' = save_entity(dolt, entity)
              /\ last' = [StoreCall("save_entity") EXCEPT !.entity_id = nextE,
                                                          !.traveler = entity]
    /\ nextE' = nextE + 1
    /\ UNCHANGED <<neo4j, nextU, pc, archived>>

\* a caller reads an entity on the active branch, moves it and saves it back
ModifyEntity ==
    /\ Call
    /\ \E entity_id \in DOMAIN ActivePartition(dolt).entities, location \in Locations :
          LET entity == [ActivePartition(dolt).entities[entity_id]
                            EXCEPT !.current_location_id = location]
          IN  /\ entity # ActivePartition(dolt).entities[entity_id]
              /\ dolt' = save_entity(dolt, entity)
              /\ last' = [StoreCall("save_entity") EXCEPT !.entity_id = entity_id,
                                                          !.traveler = entity]
    /\ UNCHANGED <<neo4j, nextU, nextE, pc, archived>>

(* --------------- the store under its direct callers -------------------- *)
\* a caller reads an entity on the active branch
GetEntity ==
    /\ Call
    /\ \E entity_id \in KnownIds(EntityIds, nextE),
          universe_id \in KnownIds(UniverseIds, nextU) :
          last' = [NoCall EXCEPT !.op = "get_entity",
                                 !.entity_id = entity_id,
                                 !.universe_id = universe_id,
                                 !.success = (get_entity(dolt, entity_id, universe_id) # NoEntity),
                                 !.entity = get_entity(dolt, entity_id, universe_id)]
    /\ UNCHANGED <<dolt, neo4j, nextU, nextE, pc, archived>>

\* a caller appends an event it has stamped itself
AppendEvent ==
    /\ Call
    /\ \E universe_id \in DOMAIN ActivePartition(dolt).universes, timestamp \in Timestamps :
          LET event == [NoEvent EXCEPT !.event_type = "dialogue",
                                       !.universe_id = universe_id,
                                       !.timestamp = timestamp,
                                       !.actor_id = calls + 1]
          IN  /\ dolt' = append_event(dolt, event)
              /\ last' = [StoreCall("append_event") EXCEPT !.universe_id = universe_id,
                                                           !.event = event]
    /\ UNCHANGED <<neo4j, nextU, nextE, pc, archived>>

GetEvents ==
    /\ Call
    /\ \E universe_id \in KnownIds(UniverseIds, nextU) :
          last' = [StoreCall("get_events") EXCEPT !.universe_id = universe_id,
                                                 !.events = get_events(dolt, universe_id)]
    /\ UNCHANGED <<dolt, neo4j, nextU, nextE, pc, archived>>

\* the store alone, under callers of its own
NextStore ==
    \/ CreateBranch
    \/ CheckoutBranch
    \/ DeleteBranch
    \/ InitializePrimeMaterial
    \/ CreateEntity
    \/ GetEntity
    \/ AppendEvent
    \/ GetEvents

SpecStore == Init /\ [][NextStore]_vars

(* ------------- the graph store under its direct callers ---------------- *)
\* the universes a caller of the graph store names
GraphUniverses == KnownIds(UniverseIds, nextU + 1)

\* a caller registers an entity, in a universe or with no universe (Prime)
RegisterEntity ==
    /\ Call
    /\ \E entity_id \in KnownIds(EntityIds, nextE), name \in Names,
          universe_id \in GraphUniverses \cup {None} :
          /\ neo4j' = register_entity(neo4j, entity_id, name, "character", universe_id)
          /\ nextE' = IF entity_id = nextE THEN nextE + 1 ELSE nextE
          /\ last' = [StoreCall("register_entity") EXCEPT !.entity_id = entity_id,
                                                          !.name = name,
                                                          !.entity_type = "character",
                                                          !.universe_id = universe_id]
    /\ UNCHANGED <<dolt, nextU, pc, archived>>

\* a caller creates a variant, under a new id, of an entity it knows
CreateVariantNode ==
    /\ Call
    /\ nextE \in EntityIds
    /\ \E original_entity_id \in DOMAIN neo4j.nodes, universe_id \in GraphUniverses :
          /\ neo4j' = create_variant_node(neo4j, original_entity_id, nextE, universe_id)
          /\ last' = [StoreCall("create_variant_node") EXCEPT
                          !.entity_id = original_entity_id,
                          !.destination_id = universe_id]
    /\ nextE' = nextE + 1
    /\ UNCHANGED <<dolt, nextU, pc, archived>>

GetEntityInUniverse ==
    /\ Call
    /\ \E entity_name \in Names, universe_id \in GraphUniverses,
          entity_type \in {"", "character"} :
          \E r \in get_entity_in_universe(neo4j, entity_name, universe_id, entity_type) :
              last' = [NoCall EXCEPT !.op = "get_entity_in_universe",
                                     !.name = entity_name,
                                     !.universe_id = universe_id,
                                     !.entity_type = entity_type,
                                     !.entity_id = r.id,
                                     !.raised = r.raised,
                                     !.success = ~r.raised]
    /\ UNCHANGED <<dolt, neo4j, nextU, nextE, pc, archived>>

NextGraph ==
    \/ RegisterEntity
    \/ CreateVariantNode
    \/ GetEntityInUniverse

SpecGraph == Init /\ [][NextGraph]_vars

(* ------------------- callers of the relationships ---------------------- *)
\* a graph to find paths in holds one relationship more
MaxPathEdges == MaxRelationships + 1

\* a caller reads the graph: a read changes nothing but the caller's result
Read == pc = 0 /\ calls' = calls

\* the entities a caller relates: those that have a node and two more
RelatedIds == {e \in EntityIds : \A i \in 1..(e - 2) : i \in DOMAIN neo4j.nodes}

\* the id a caller gives a new relationship: one that no relationship has
new_relationship_id ==
    CHOOSE id \in 1..(MaxPathEdges + 1) :
        /\ id \notin DOMAIN neo4j.relates
        /\ \A k \in DOMAIN neo4j.relates : k < id

\* relationships differ by their ids only, so callers create them in one
\* order of (from, to, universe, type) and not in every order
in_order(r, s) ==
    LET key(x) == <<x.from_entity_id, x.to_entity_id, x.universe_id,
                   IF x.type = "KNOWS" THEN 0 ELSE 1>>
        before(a, b, i) == a[i] < b[i] /\ \A j \in 1..(i - 1) : a[j] = b[j]
    IN  key(r) = key(s) \/ \E i \in 1..4 : before(key(r), key(s), i)

CreateRelationshipOf(relationship_types, most) ==
    /\ Cardinality(DOMAIN neo4j.relates) < most
    /\ \E from_id \in RelatedIds, to_id \in RelatedIds, universe_id \in GraphUniverses,
          relationship_type \in relationship_types :
          LET relationship == [id |-> new_relationship_id,
                               from_entity_id |-> from_id, to_entity_id |-> to_id,
                               relationship_type |-> relationship_type,
                               universe_id |-> universe_id]
              created == create_relationship(neo4j, relationship)
          IN  /\ from_id # to_id
              /\ \A k \in DOMAIN neo4j.relates :
                    in_order(neo4j.relates[k], created.relates[relationship.id])
              /\ neo4j' = created
              /\ last' = [StoreCall("create_relationship") EXCEPT
                              !.relationship = relationship]
    /\ UNCHANGED <<dolt, nextU, nextE, pc, archived>>

\* a caller creates a relationship between two entities, under a new id
CreateRelationship ==
    /\ Call
    /\ CreateRelationshipOf(RelationshipTypes, MaxRelationships)

\* create_knows_relationship(universe_id, from_id, to_id), then create_relationship
CreateKnowsRelationship ==
    /\ Call
    /\ CreateRelationshipOf({"KNOWS"}, MaxPathEdges)

DeleteRelationship ==
    /\ Call
    /\ \E relationship_id \in DOMAIN neo4j.relates :
          /\ neo4j' = delete_relationship(neo4j, relationship_id)
          /\ last' = [StoreCall("delete_relationship") EXCEPT
                          !.relationship =
                              record_to_relationship(neo4j.relates[relationship_id],
                                                     relationship_id,
                                                     neo4j.relates[relationship_id].from_entity_id,
                                                     neo4j.relates[relationship_id].to_entity_id)]
    /\ UNCHANGED <<dolt, nextU, nextE, pc, archived>>

GetRelationships ==
    /\ Read
    /\ \E entity_id \in EntityIds, universe_id \in GraphUniverses,
          relationship_type \in RelationshipTypes \cup {""} :
          last' = [StoreCall("get_relationships") EXCEPT
                      !.entity_id = entity_id,
                      !.universe_id = universe_id,
                      !.relationship_type = relationship_type,
                      !.relationships = get_relationships(neo4j, entity_id, universe_id,
                                                          relationship_type)]
    /\ UNCHANGED <<dolt, neo4j, nextU, nextE, pc, archived>>

FindConnectedEntities ==
    /\ Read
    /\ \E entity_id \in EntityIds, universe_id \in GraphUniverses,
          max_depth \in {DefaultMaxDepth} :
          LET r == find_connected_entities(neo4j, entity_id, universe_id, max_depth)
          IN  last' = [NoCall EXCEPT !.op = "find_connected_entities",
                                     !.entity_id = entity_id,
                                     !.universe_id = universe_id,
                                     !.max_depth = max_depth,
                                     !.relationships = r.ids,
                                     !.raised = r.raised,
                                     !.success = ~r.raised]
    /\ UNCHANGED <<dolt, neo4j, nextU, nextE, pc, archived>>

\* the two ends are different entities
FindPath ==
    /\ Read
    /\ \E from_entity_id \in EntityIds, to_entity_id \in EntityIds,
          universe_id \in GraphUniverses :
          /\ from_entity_id # to_entity_id
          /\ \E r \in find_path(neo4j, from_entity_id, to_entity_id, universe_id) :
                last' = [NoCall EXCEPT !.op = "find_path",
                                       !.entity_id = from_entity_id,
                                       !.destination_id = to_entity_id,
                                       !.universe_id = universe_id,
                                       !.path = r.path,
                                       !.success = r.found]
    /\ UNCHANGED <<dolt, neo4j, nextU, nextE, pc, archived>>

\* the relationships and their reads
NextEdges ==
    \/ CreateRelationship
    \/ DeleteRelationship
    \/ GetRelationships

SpecEdges == Init /\ [][NextEdges]_vars

\* relationships next to the branch operations and the orchestration
NextRelationships ==
    \/ CreateRelationship
    \/ DeleteRelationship
    \/ InitializePrimeMaterial
    \/ ForkUniverse
    \/ ArchiveUniverse
    \/ CreateBranch
    \/ CheckoutBranch
    \/ DeleteBranch

SpecRelationships == Init /\ [][NextRelationships]_vars

NextPaths ==
    \/ CreateKnowsRelationship
    \/ FindConnectedEntities
    \/ FindPath

SpecPaths == Init /\ [][NextPaths]_vars

(* ------------- a second caller, without serialization ------------------ *)
\* another caller's call runs while a travel is between two of its steps
Concurrently == pc > 0 /\ calls < MaxCalls /\ calls' = calls + 1

\* the travel in flight was interleaved with a call that left branch active
Interleaved(branch) == [last EXCEPT !.interleaved = TRUE, !.other_branch = branch]

\* another caller forks a universe
ConcurrentForkUniverse ==
    /\ Concurrently
    /\ \E parent_universe_id \in KnownIds(UniverseIds, nextU), input \in ForkInputs :
          LET r == fork_universe(dolt, parent_universe_id, input[1], input[2],
                                 nextU, calls + 1)
          IN  /\ fork_mints_id(dolt, parent_universe_id) => nextU \in UniverseIds
              /\ dolt' = r.dolt
              /\ nextU' = IF fork_mints_id(dolt, parent_universe_id)
                          THEN nextU + 1 ELSE nextU
              /\ last' = Interleaved(r.dolt.current)
    /\ UNCHANGED <<neo4j, nextE, pc, archived>>

\* another caller travels: lines 196-267 in one piece
ConcurrentTravel ==
    /\ Concurrently
    /\ \E traveler_id \in KnownIds(EntityIds, nextE),
          source_universe_id \in KnownIds(UniverseIds, nextU),
          destination_universe_id \in KnownIds(UniverseIds, nextU) :
          LET r == travel_prepare(dolt, traveler_id, source_universe_id,
                                  destination_universe_id, nextE)
              commits == r.ok /\ branch_exists(r.dolt, r.destination.dolt_branch)
              saved == save_entity(checkout_branch(r.dolt, r.destination.dolt_branch),
                                   r.traveler_copy)
              logged == append_event(saved,
                                     travel_event(traveler_id, source_universe_id,
                                                  destination_universe_id,
                                                  r.traveler_copy.id, calls + 1))
          IN  /\ r.ok => nextE \in EntityIds
              /\ dolt' = IF commits THEN logged ELSE r.dolt
              /\ neo4j' = IF commits
                          THEN create_variant_node(neo4j, traveler_id, r.traveler_copy.id,
                                                   destination_universe_id)
                          ELSE neo4j
              /\ nextE' = IF r.ok THEN nextE + 1 ELSE nextE
              /\ last' = Interleaved(IF commits THEN logged.current ELSE r.dolt.current)
    /\ UNCHANGED <<nextU, pc, archived>>

NextConcurrent ==
    \/ InitializePrimeMaterial
    \/ ForkUniverse
    \/ CreateEntity
    \/ TravelBegin
    \/ TravelSaveCopy
    \/ TravelCreateVariant
    \/ TravelAppendEvent
    \/ ConcurrentForkUniverse
    \/ ConcurrentTravel

SpecConcurrent == Init /\ [][NextConcurrent]_vars

(* ------------------ get_universe_lineage, step by step ----------------- *)
\* position of a caller inside the while loop of get_universe_lineage
Walking == -1

\* lines 305-306
LineageBegin ==
    /\ Call
    /\ \E universe_id \in KnownIds(UniverseIds, nextU) :
          last' = [NoCall EXCEPT !.op = "get_universe_lineage",
                                 !.universe_id = universe_id,
                                 !.error = "in progress",
                                 !.current_id = universe_id]
    /\ pc' = Walking
    /\ UNCHANGED <<dolt, neo4j, nextU, nextE, archived>>

\* the list is kept to MaxUniverses + 1 records: a walk that is still going
\* round after that repeats its state
lineage_append(lineage, universe) ==
    IF Len(lineage) <= MaxUniverses THEN Append(lineage, universe) ELSE lineage

\* a loop that reads the same universe again and again
LineageStep_no_advance ==
    /\ pc = Walking
    /\ LET universe == get_universe(dolt, last.current_id)
       IN  IF last.current_id = None \/ universe = NoUniverse
           THEN /\ pc' = 0
                /\ last' = [last EXCEPT !.error = "", !.success = TRUE,
                                        !.universes = reverse(last.lineage)]
           ELSE /\ pc' = pc
                /\ last' = [last EXCEPT
                              !.lineage = lineage_append(last.lineage, universe)]
    /\ UNCHANGED <<dolt, neo4j, nextU, nextE, calls, archived>>

\* one test of the loop condition and one pass of the body (lines 308-313),
\* or the exit of the loop with reverse and return (lines 315-316)
LineageStep ==
    /\ pc = Walking
    /\ LET universe == get_universe(dolt, last.current_id)
       IN  IF last.current_id = None \/ universe = NoUniverse
           THEN /\ pc' = 0
                /\ last' = [last EXCEPT !.error = "", !.success = TRUE,
                                        !.universes = reverse(last.lineage)]
           ELSE /\ pc' = pc
                /\ last' = [last EXCEPT
                              !.lineage = lineage_append(last.lineage, universe),
                              !.current_id = universe.parent_universe_id]
    /\ UNCHANGED <<dolt, neo4j, nextU, nextE, calls, archived>>

NextLineage ==
    \/ InitializePrimeMaterial
    \/ ForkUniverse
    \/ ArchiveUniverse
    \/ CreateEntity
    \/ TravelBegin
    \/ TravelSaveCopy
    \/ TravelCreateVariant
    \/ TravelAppendEvent
    \/ LineageBegin
    \/ LineageStep

\* the loop runs in its caller's thread and nothing suspends it
SpecLineage == Init /\ [][NextLineage]_vars /\ WF_vars(LineageStep)

(* ------------------------------ queries -------------------------------- *)
\* a caller looks a universe up on the active branch
GetUniverse ==
    /\ Call
    /\ \E universe_id \in KnownIds(UniverseIds, nextU) :
          last' = [NoCall EXCEPT !.op = "get_universe",
                                 !.universe_id = universe_id,
                                 !.success = (get_universe(dolt, universe_id) # NoUniverse),
                                 !.universe = get_universe(dolt, universe_id)]
    /\ UNCHANGED <<dolt, neo4j, nextU, nextE, pc, archived>>

GetUniverseLineage ==
    /\ Call
    /\ \E universe_id \in KnownIds(UniverseIds, nextU) :
          last' = [NoCall EXCEPT !.op = "get_universe_lineage",
                                 !.universe_id = universe_id,
                                 !.success = TRUE,
                                 !.universes = get_universe_lineage(dolt, universe_id)]
    /\ UNCHANGED <<dolt, neo4j, nextU, nextE, pc, archived>>

GetForkChildren ==
    /\ Call
    /\ \E universe_id \in KnownIds(UniverseIds, nextU) :
          last' = [NoCall EXCEPT !.op = "get_fork_children",
                                 !.universe_id = universe_id,
                                 !.success = TRUE,
                                 !.universes = get_fork_children(dolt, universe_id)]
    /\ UNCHANGED <<dolt, neo4j, nextU, nextE, pc, archived>>

Next ==
    \/ InitializePrimeMaterial
    \/ ForkUniverse
    \/ ArchiveUniverse
    \/ TravelBegin
    \/ TravelSaveCopy
    \/ TravelCreateVariant
    \/ TravelAppendEvent
    \/ CheckoutBranch
    \/ CreateBranch
    \/ DeleteBranch
    \/ CreateEntity
    \/ ModifyEntity
    \/ GetUniverse
    \/ GetUniverseLineage
    \/ GetForkChildren

Spec == Init /\ [][Next]_vars

TypeOK ==
    /\ pc \in 0..Len(travel_steps) \cup {Walking}
    /\ dolt.current \in Branches
    /\ Main \in Branches

(* ------------------------------ claims --------------------------------- *)
\* <<parent branch, child branch>> of every universe stored on its own branch
ForkPairs ==
    {pair \in Branches \X Branches :
        \E c \in DOMAIN dolt.branches[pair[2]].universes :
            LET child == dolt.branches[pair[2]].universes[c]
            IN  /\ child.dolt_branch = pair[2]
                /\ child.parent_universe_id # None
                /\ \E b \in Branches :
                      /\ child.parent_universe_id \in DOMAIN dolt.branches[b].universes
                      /\ dolt.branches[b].universes[child.parent_universe_id].dolt_branch
                            = pair[1]}

\* C1: after a fork of P into C the branches of P and C are independently
\* mutable: a step that saves or modifies an entity on one of the two
\* branches leaves the entities read on the other branch as they were.
C1_BranchesIndependent ==
    [][\A pair \in ForkPairs :
          (pair[1] \in DOMAIN dolt'.branches /\ pair[2] \in DOMAIN dolt'.branches) =>
              /\ dolt'.branches[pair[2]].entities # dolt.branches[pair[2]].entities
                    => dolt'.branches[pair[1]].entities = dolt.branches[pair[1]].entities
              /\ dolt'.branches[pair[1]].entities # dolt.branches[pair[1]].entities
                    => dolt'.branches[pair[2]].entities = dolt.branches[pair[2]].entities]_vars

\* an entity was saved or modified on one branch of a fork pair only
C1_Witness ==
    /\ last.op = "save_entity"
    /\ \E pair \in ForkPairs :
          /\ dolt.current \in {pair[1], pair[2]}
          /\ dolt.branches[pair[1]].entities # dolt.branches[pair[2]].entities

\* C2: a successful fork of parent P returns a universe whose parent is P and
\* whose depth is P's depth plus one, at any depth of P.
C2_ForkParentDepth ==
    [][(last'.op = "fork_universe" /\ last'.success) =>
          /\ last'.universe.parent_universe_id = last'.universe_id
          /\ last'.universe.depth = get_universe(dolt, last'.universe_id).depth + 1]_vars

\* a fork of a fork succeeded
C2_Witness ==
    /\ last.op = "fork_universe" /\ last.success
    /\ last.universe.depth = 2

\* C3: a failing fork leaves the store as it was: no branch, no universe
\* record, no event, and the same active branch.
C3_FailedForkNoChange ==
    [][(last'.op = "fork_universe" /\ ~last'.success) =>
          (dolt' = dolt /\ neo4j' = neo4j)]_vars

\* a fork failed on a branch-name collision
C3_Witness ==
    /\ last.op = "fork_universe" /\ ~last.success
    /\ last.error = "already exists"

\* C4: a fork of a parent that does not resolve fails mentioning "not found",
\* a fork of a parent that is not ACTIVE fails mentioning inactivity; both
\* results carry no universe and no event.
C4_ForkErrors ==
    [][last'.op = "fork_universe" =>
          LET parent == get_universe(dolt, last'.universe_id)
              failed == /\ ~last'.success
                        /\ last'.universe = NoUniverse
                        /\ last'.event = NoEvent
          IN  /\ parent = NoUniverse => (failed /\ MentionsNotFound(last'.error))
              /\ (parent # NoUniverse /\ ~is_active(parent))
                    => (failed /\ MentionsInactive(last'.error))]_vars

\* a fork of an archived parent was refused
C4_Witness ==
    /\ last.op = "fork_universe" /\ ~last.success
    /\ MentionsInactive(last.error)

\* C5: once archive_universe(U) has returned true, every later fork of U
\* fails with the inactivity error, whichever branch is then active.
C5_ArchivedNeverForks ==
    (last.op = "fork_universe" /\ last.universe_id \in archived) =>
        (~last.success /\ MentionsInactive(last.error))

\* C6: after a successful fork the child's branch exists, the child's record
\* is read back on that branch, and the child's log there holds a FORK event
\* with the reason passed in and, when an owner was given, the owner as actor.
C6_ForkPersisted ==
    (last.op = "fork_universe" /\ last.success) =>
        LET child == last.universe
            on_child == checkout_branch(dolt, child.dolt_branch)
            log == get_events(on_child, child.id)
        IN  /\ branch_exists(dolt, child.dolt_branch)
            /\ get_universe(on_child, child.id) = child
            /\ \E i \in 1..Len(log) :
                  /\ log[i].event_type = "fork"
                  /\ log[i].fork_reason = last.reason
                  /\ last.player_id # None => log[i].actor_id = last.player_id

\* a fork with an owner succeeded while another branch was active
C6_Witness ==
    /\ last.op = "fork_universe" /\ last.success
    /\ last.player_id # None
    /\ last.universe.depth = 1

TravelReturned == pc = 0 /\ last.op = "travel_between_worlds" /\ last.success

\* C7: travel never deletes or mutates the original: while a travel runs and
\* after it has succeeded the traveler is read in the source universe under
\* its id with every field as before the call.
C7_OriginalUntouched ==
    (last.op = "travel_between_worlds" /\ (pc > 0 \/ last.success)) =>
        /\ last.traveler # NoEntity
        /\ get_entity(checkout_branch(dolt, last.source_branch),
                      last.entity_id, last.universe_id) = last.traveler

\* a traveler with a location has travelled
C7_Witness ==
    /\ TravelReturned
    /\ last.traveler.current_location_id # None

\* C8: a successful travel returns a copy id different from the traveler's,
\* and the copy is stored on the destination's branch, bound to the
\* destination universe, with no current location.
C8_CopyInDestination ==
    TravelReturned =>
        LET copy_id == last.traveler_copy.id
            on_destination == checkout_branch(dolt, last.destination_branch)
            stored == get_entity(on_destination, copy_id, last.destination_id)
        IN  /\ copy_id # last.entity_id
            /\ stored # NoEntity
            /\ stored.universe_id = last.destination_id
            /\ stored.current_location_id = None
            /\ stored.type = last.traveler.type

\* a traveler with a location has travelled to another universe
C8_Witness ==
    /\ TravelReturned
    /\ last.traveler.current_location_id = StartLocation
    /\ last.universe_id # last.destination_id

\* C9: after a successful travel has_variant(traveler, destination) is true
\* and the VARIANT_OF link goes from the copy to the original traveler.
C9_VariantLink ==
    TravelReturned =>
        /\ has_variant(neo4j, last.entity_id, last.destination_id)
        /\ <<last.traveler_copy.id, last.entity_id>> \in neo4j.variant_of
        /\ <<last.entity_id, last.traveler_copy.id>> \notin neo4j.variant_of

\* a travel has returned and the graph holds its link
C9_Witness ==
    /\ TravelReturned
    /\ neo4j.variant_of # {}

\* C10: in every state, between the steps of a travel too, a TRAVEL event in
\* a log implies that the copy it names is stored beside it and that the
\* copy's variant link exists.
C10_EventAfterCopyAndLink ==
    \A b \in Branches : \A i \in 1..Len(dolt.branches[b].events) :
        LET event == dolt.branches[b].events[i]
        IN  event.event_type = "travel" =>
                /\ event.actor_id \in DOMAIN dolt.branches[b].entities
                /\ dolt.branches[b].entities[event.actor_id].universe_id = event.universe_id
                /\ <<event.actor_id, event.original_entity_id>> \in neo4j.variant_of
                /\ has_variant(neo4j, event.original_entity_id, event.universe_id)

\* a TRAVEL event is in the log of the destination
C10_Witness ==
    \E i \in 1..Len(ActivePartition(dolt).events) :
        /\ ActivePartition(dolt).events[i].event_type = "travel"
        /\ ActivePartition(dolt).events[i].universe_id = last.destination_id

\* C11: a travel of an entity that is not a character fails with an error and
\* creates nothing: no entity copy on any branch, no variant link, no TRAVEL
\* event, and no further step of the travel runs.
C11_NonCharacterRefused ==
    [][(/\ last'.op = "travel_between_worlds" /\ calls' = calls + 1
        /\ last'.traveler # NoEntity /\ ~is_character(last'.traveler)) =>
          /\ pc' = 0 /\ ~last'.success /\ ~last'.raised
          /\ last'.error = "Only characters can travel between worlds"
          /\ last'.traveler_copy = NoEntity
          /\ dolt'.branches = dolt.branches
          /\ neo4j' = neo4j
          /\ nextE' = nextE]_vars

\* an item stored in the source universe was refused
C11_Witness ==
    /\ last.op = "travel_between_worlds" /\ pc = 0 /\ ~last.success
    /\ last.traveler # NoEntity /\ last.traveler.type = "item"
    /\ get_entity(dolt, last.traveler.id, last.traveler.universe_id) = last.traveler

\* the variants of an original that live in a universe
variants_in(g, original_entity_id, universe_id) ==
    {l \in g.variant_of : /\ l[2] = original_entity_id
                          /\ g.nodes[l[1]].universe_id = str(universe_id)}

\* C12: in every state reached by travels an original entity has at most one
\* variant per destination universe: at most one VARIANT_OF link to it whose
\* variant lives in a given universe.
C12_OneVariantPerUniverse ==
    \A original \in DOMAIN neo4j.nodes : \A universe_id \in UniverseIds :
        Cardinality(variants_in(neo4j, original, universe_id)) <= 1

\* C13: archive_universe(U) either returns true and U's stored status is then
\* ARCHIVED, or returns false and the store is as before the call; it returns
\* false for an id that does not resolve and for Prime.
C13_ArchiveOutcome ==
    [][last'.op = "archive_universe" =>
          LET universe == get_universe(dolt, last'.universe_id)
          IN  /\ ~last'.raised
              /\ last'.success =>
                    get_universe(dolt', last'.universe_id).status = "archived"
              /\ ~last'.success => dolt' = dolt
              /\ universe = NoUniverse => ~last'.success
              /\ is_prime_material(universe) => ~last'.success]_vars

\* every universe record stored on some branch
StoredUniverses ==
    UNION {{dolt.branches[b].universes[u] : u \in DOMAIN dolt.branches[b].universes} :
              b \in Branches}

\* C14: in every state reached by initialize, fork, travel and archive calls
\* the status of Prime, on whichever branch its record is stored, is not
\* ARCHIVED.
C14_PrimeNeverArchived ==
    \A universe \in StoredUniverses :
        is_prime_material(universe) => universe.status # "archived"

\* archive_universe was called on a stored Prime and returned false
C14_Witness ==
    /\ last.op = "archive_universe" /\ ~last.success /\ ~last.raised
    /\ get_universe(dolt, last.universe_id) # NoUniverse
    /\ is_prime_material(get_universe(dolt, last.universe_id))
    /\ archived # {}

\* the ids of the stored universes that have a null parent
PrimeIds == {universe.id : universe \in {u \in StoredUniverses : is_prime_material(u)}}

\* C15: once Prime has been initialized, in every state reached by
\* initialize, fork and archive calls exactly one universe has a null parent.
C15_OnePrime ==
    nextU > 1 => Cardinality(PrimeIds) = 1

\* the parent id carried by the stored records of a universe
parent_of(universe_id) ==
    IF \E u \in StoredUniverses : u.id = universe_id
    THEN (CHOOSE u \in StoredUniverses : u.id = universe_id).parent_universe_id
    ELSE None

\* the ids met by following parent ids from universe_id, at most n of them
RECURSIVE ancestors(_, _)
ancestors(universe_id, n) ==
    IF universe_id = None \/ n = 0 THEN {}
    ELSE {universe_id} \cup ancestors(parent_of(universe_id), n - 1)

C17_LineageRootFirst ==
    (/\ last.op = "get_universe_lineage"
     /\ \E u \in StoredUniverses :
           /\ u.id = last.universe_id
           /\ Cardinality(ancestors(u.id, MaxUniverses)) = u.depth + 1) =>
        LET lineage == last.universes
            depth == (CHOOSE u \in StoredUniverses : u.id = last.universe_id).depth
        IN  /\ Len(lineage) = depth + 1
            /\ is_prime_material(lineage[1])
            /\ lineage[Len(lineage)].id = last.universe_id
            /\ \A i \in 1..(Len(lineage) - 1) :
                  lineage[i + 1].parent_universe_id = lineage[i].id

\* the records of universe_id stored on the branch the record itself names
home_records(universe_id) ==
    {u \in StoredUniverses :
        /\ u.id = universe_id
        /\ u.dolt_branch \in Branches
        /\ universe_id \in DOMAIN dolt.branches[u.dolt_branch].universes
        /\ dolt.branches[u.dolt_branch].universes[universe_id] = u}

\* C18: get_universe(id) resolves a saved universe whichever branch is
\* active: a universe saved on its own branch (as fork_universe saves the
\* child) is found from every other branch without being re-saved there,
\* and the record found is the one saved on its own branch.
C18_LookupOnAnyBranch ==
    (last.op = "get_universe" /\ home_records(last.universe_id) # {}) =>
        /\ last.success
        /\ last.universe \in home_records(last.universe_id)

\* C19: get_fork_children(P) returns all universes whose parent is P: every
\* universe made by a successful fork_universe(P, ...) is in the result and
\* no other universe is.
C19_ForkChildren ==
    last.op = "get_fork_children" =>
        {last.universes[i].id : i \in 1..Len(last.universes)}
            = {u.id : u \in {c \in StoredUniverses :
                                c.parent_universe_id = last.universe_id}}

\* C20: fork_universe, travel_between_worlds and archive_universe never raise
\* into the caller, a deleted branch included: a call that fails returns
\* success = false (false for archive) with an error string, which for a
\* travel names the lookup that failed.
C20_NeverRaises ==
    (/\ last.op \in {"fork_universe", "travel_between_worlds", "archive_universe"}
     /\ pc = 0 /\ ~last.success) =>
        /\ ~last.raised
        /\ last.op = "fork_universe" => last.error # ""
        /\ last.op = "travel_between_worlds" =>
              \/ MentionsNotFound(last.error)
              \/ last.error = "Only characters can travel between worlds"

\* C21: create_branch(name, from_branch) fails when from_branch does not
\* exist or when name already exists, and a failed create_branch leaves the
\* set of branches and the content of every partition unchanged.
C21_CreateBranchFailsClean ==
    [][last'.op = "create_branch" =>
          /\ (~branch_exists(dolt, last'.source_branch)
                \/ branch_exists(dolt, last'.destination_branch))
                => (~last'.success /\ last'.raised /\ last'.error # "")
          /\ ~last'.success => dolt' = dolt]_vars

\* create_branch was refused for a name whose branch differs from from_branch
C21_Witness ==
    /\ last.op = "create_branch" /\ ~last.success
    /\ last.error = "already exists"
    /\ dolt.branches[last.destination_branch] # dolt.branches[last.source_branch]

\* C22: a successful create_branch seeds the new branch with a full snapshot
\* of from_branch: right after it the universes, entities and events of
\* from_branch are on the new branch with identical content, and from_branch
\* and every other branch are as before.
C22_SnapshotCopy ==
    [][(last'.op = "create_branch" /\ last'.success) =>
          /\ branch_exists(dolt', last'.destination_branch)
          /\ dolt'.branches[last'.destination_branch] = dolt.branches[last'.source_branch]
          /\ \A b \in Branches : dolt'.branches[b] = dolt.branches[b]
          /\ dolt'.current = dolt.current]_vars

\* a branch was created from a branch that holds a universe, an entity and
\* an event
C22_Witness ==
    /\ last.op = "create_branch" /\ last.success
    /\ dolt.branches[last.source_branch].universes # EmptyMap
    /\ dolt.branches[last.source_branch].entities # EmptyMap
    /\ dolt.branches[last.source_branch].events # <<>>
    /\ dolt.branches[last.destination_branch] = dolt.branches[last.source_branch]

\* C23: checkout_branch(name) fails when name does not exist and then leaves
\* the active branch unchanged; after a successful checkout the active branch
\* is name, and every write without a branch argument changes the active
\* partition only and every read returns what the active partition holds.
C23_CheckoutTargetsActive ==
    [][/\ last'.op = "checkout_branch" =>
             /\ ~branch_exists(dolt, last'.source_branch)
                   => (~last'.success /\ last'.raised /\ dolt' = dolt)
             /\ branch_exists(dolt, last'.source_branch)
                   => /\ last'.success
                      /\ dolt'.current = last'.source_branch
                      /\ dolt'.branches = dolt.branches
       /\ last'.op \in {"save_entity", "append_event", "initialize_prime_material"} =>
             /\ dolt'.current = dolt.current
             /\ dolt'.branches[dolt.current] # dolt.branches[dolt.current]
             /\ \A b \in Branches \ {dolt.current} : dolt'.branches[b] = dolt.branches[b]
       /\ last'.op = "get_entity" =>
             /\ dolt' = dolt
             /\ last'.entity # NoEntity =>
                   /\ last'.entity_id \in DOMAIN ActivePartition(dolt).entities
                   /\ ActivePartition(dolt).entities[last'.entity_id] = last'.entity
       /\ last'.op = "get_events" =>
             /\ dolt' = dolt
             /\ \A i \in 1..Len(last'.events) :
                   \E j \in 1..Len(ActivePartition(dolt).events) :
                       ActivePartition(dolt).events[j] = last'.events[i]]_vars

\* after a checkout of another branch a write has made that branch differ
\* from main
C23_Witness ==
    /\ last.op \in {"save_entity", "append_event"}
    /\ dolt.current # Main
    /\ ActivePartition(dolt) # dolt.branches[Main]
    /\ ActivePartition(dolt).events # <<>>

\* C24: delete_branch fails for the root branch 'main' and for the active
\* branch and then leaves the set of branches unchanged; a delete of any
\* other existing branch removes exactly that branch.
C24_DeleteBranch ==
    [][last'.op = "delete_branch" =>
          LET name == last'.source_branch
          IN  /\ (name = Main \/ name = dolt.current)
                    => (~last'.success /\ last'.raised /\ dolt' = dolt)
              /\ (name # Main /\ name # dolt.current /\ branch_exists(dolt, name))
                    => /\ last'.success
                       /\ DOMAIN dolt'.branches = Branches \ {name}
                       /\ \A b \in Branches \ {name} :
                             dolt'.branches[b] = dolt.branches[b]
                       /\ dolt'.current = dolt.current]_vars

\* a delete of the active branch, which is not main, was refused
C24_Witness ==
    /\ last.op = "delete_branch" /\ ~last.success
    /\ last.error = "Cannot delete the current branch"
    /\ last.source_branch = dolt.current
    /\ Cardinality(Branches) > 2

\* C25: get_entity(id, universe_id) returns the entity only for the universe
\* it was saved under: a read of an id saved under another universe returns
\* not-found, a read under its own universe returns the entity saved.
C25_EntityOfItsUniverse ==
    (last.op = "get_entity" /\ last.entity_id \in DOMAIN ActivePartition(dolt).entities) =>
        LET saved == ActivePartition(dolt).entities[last.entity_id]
        IN  /\ saved.universe_id # last.universe_id
                  => (last.entity = NoEntity /\ ~last.success)
            /\ saved.universe_id = last.universe_id
                  => (last.entity = saved /\ last.success)

\* an entity saved under one universe was asked for under another
C25_Witness ==
    /\ last.op = "get_entity" /\ ~last.success
    /\ last.entity_id \in DOMAIN ActivePartition(dolt).entities
    /\ ActivePartition(dolt).entities[last.entity_id].universe_id # last.universe_id

\* C26: get_events(universe_id) returns that universe's events in ascending
\* timestamp order whatever order they were appended in, events of equal
\* timestamp in insertion order (callers' events carry the number of the call
\* that appended them as actor).
C26_EventsByTimestamp ==
    last.op = "get_events" =>
        LET events == last.events
            appended == SelectSeq(ActivePartition(dolt).events,
                                  LAMBDA e : e.universe_id = last.universe_id)
        IN  /\ Len(events) = Len(appended)
            /\ \A j \in 1..Len(appended) : \E i \in 1..Len(events) : events[i] = appended[j]
            /\ \A i, j \in 1..Len(events) :
                  i < j => /\ events[i].timestamp <= events[j].timestamp
                           /\ events[i].timestamp = events[j].timestamp
                                 => events[i].actor_id < events[j].actor_id

\* events appended latest-first, two of them with one timestamp, were listed
C26_Witness ==
    /\ last.op = "get_events"
    /\ \E i, j \in 1..Len(last.events) :
          /\ i < j
          /\ last.events[i].timestamp < last.events[j].timestamp
          /\ last.events[i].actor_id > last.events[j].actor_id
    /\ \E i, j \in 1..Len(last.events) :
          i < j /\ last.events[i].timestamp = last.events[j].timestamp

\* the entities of the graph that carry the name (and the type, if given)
named(entity_name, entity_type) ==
    {e \in DOMAIN neo4j.nodes :
        /\ neo4j.nodes[e].name = entity_name
        /\ entity_type = "" \/ neo4j.nodes[e].type = entity_type}

\* those of them registered directly in the universe
registered_in(entity_name, entity_type, universe_id) ==
    {e \in named(entity_name, entity_type) :
        neo4j.nodes[e].universe_id = str(universe_id)}

\* the variants living in the universe whose original carries the name
variants_of_named(entity_name, entity_type, universe_id) ==
    UNION {{l[1] : l \in variants_in(neo4j, original, universe_id)} :
              original \in named(entity_name, entity_type)}

\* those of them registered through register_entity with no universe
registered_in_prime(entity_name, entity_type) ==
    {e \in named(entity_name, entity_type) : neo4j.nodes[e].universe_id = str(None)}

\* C27: get_entity_in_universe(name, V) returns the first match in strict
\* order: an entity registered directly in V with that name, else a variant
\* living in V whose original has that name; with the name registered only
\* in Prime and a variant of it in V the variant's id is returned, not the
\* Prime id.
C27_ResolutionOrder ==
    last.op = "get_entity_in_universe" =>
        LET direct == registered_in(last.name, last.entity_type, last.universe_id)
            variant == variants_of_named(last.name, last.entity_type, last.universe_id)
        IN  /\ direct # {} => (~last.raised /\ last.entity_id \in direct)
            /\ (direct = {} /\ variant # {}) =>
                  (~last.raised /\ last.entity_id \in variant)

\* C28: for an entity registered through register_entity with no universe
\* and a universe V with neither an entity of that name registered in it nor
\* a variant of it, get_entity_in_universe(name, V) returns the Prime
\* entity's id.
C28_PrimeFallback ==
    (/\ last.op = "get_entity_in_universe"
     /\ registered_in(last.name, last.entity_type, last.universe_id) = {}
     /\ variants_of_named(last.name, last.entity_type, last.universe_id) = {}
     /\ registered_in_prime(last.name, last.entity_type) # {}) =>
        /\ ~last.raised
        /\ last.entity_id \in registered_in_prime(last.name, last.entity_type)

\* the TRAVEL event of the travel that has just returned
returned_event ==
    travel_event(last.entity_id, last.universe_id, last.destination_id,
                 last.traveler_copy.id, calls)

logged_on(branch, event) ==
    /\ branch \in Branches
    /\ \E i \in 1..Len(dolt.branches[branch].events) :
          [dolt.branches[branch].events[i] EXCEPT !.timestamp = event.timestamp] = event

\* C29: the active branch is shared by all callers. The event of a travel is
\* written to the branch that is active when it is appended: that is the
\* destination's branch unless another caller's call ran between the steps of
\* the travel, and then it is the branch that call left active.
C29_WritesFollowActiveBranch ==
    TravelReturned =>
        /\ logged_on(dolt.current, returned_event)
        /\ \/ dolt.current = last.destination_branch
           \/ last.interleaved /\ dolt.current = last.other_branch

\* a travel was interleaved with another call and its event is on the branch
\* that call checked out, not on the destination's branch
C29_Witness ==
    /\ TravelReturned /\ last.interleaved
    /\ dolt.current = last.other_branch
    /\ dolt.current # last.destination_branch
    /\ logged_on(dolt.current, returned_event)
    /\ ~logged_on(last.destination_branch, returned_event)
    /\ get_entity(checkout_branch(dolt, last.destination_branch),
                  last.traveler_copy.id, last.destination_id) = last.traveler_copy

LineageReturned == pc = 0 /\ last.op = "get_universe_lineage" /\ last.success

\* lineage is a chain of the active branch's records that ends at universe_id
\* and starts at a universe with no parent or with a parent that is not found
is_lineage_of(lineage, universe_id) ==
    IF get_universe(dolt, universe_id) = NoUniverse THEN lineage = <<>>
    ELSE /\ Len(lineage) >= 1
         /\ lineage[Len(lineage)].id = universe_id
         /\ \A i \in 1..Len(lineage) :
               /\ lineage[i] = get_universe(dolt, lineage[i].id)
               /\ i > 1 => lineage[i].parent_universe_id = lineage[i - 1].id
         /\ \/ lineage[1].parent_universe_id = None
            \/ get_universe(dolt, lineage[1].parent_universe_id) = NoUniverse

\* C30: in every state reached through the orchestration operations a call of
\* get_universe_lineage returns, for every universe id; it does not raise, an
\* id that is not found gives the empty list, and otherwise the list is the
\* chain of parents up to a null parent or the first parent that is not found.
C30_LineageTerminates ==
    /\ (pc = Walking) ~> LineageReturned
    /\ [](LineageReturned =>
            /\ ~last.raised
            /\ is_lineage_of(last.universes, last.universe_id))

\* a walk has returned the partial chain: the parent of its first universe is
\* not found on the active branch
C30_Witness ==
    /\ LineageReturned
    /\ Len(last.universes) >= 1
    /\ last.universes[1].parent_universe_id # None
    /\ get_universe(dolt, last.universes[1].parent_universe_id) = NoUniverse

\* the calls C31 quantifies over
LogPreservingOps ==
    {"initialize_prime_material", "fork_universe", "travel_between_worlds",
     "archive_universe", "checkout_branch"}

returned_by(d, universe_id) ==
    {get_events(d, universe_id)[i] : i \in 1..Len(get_events(d, universe_id))}

is_prefix(old, new) ==
    Len(old) <= Len(new) /\ SubSeq(new, 1, Len(old)) = old

\* C31 as stated: an event that get_events(U) returns is returned, with the
\* same content, after every later fork_universe, travel_between_worlds,
\* archive_universe or checkout_branch call.
C31_EventsStayReturned ==
    [][last'.op \in LogPreservingOps =>
          \A universe_id \in UniverseIds :
              returned_by(dolt, universe_id) \subseteq returned_by(dolt', universe_id)]_vars

\* C31, amended: the log of each branch is append-only. Under those calls no
\* branch is removed and each branch's log keeps its events, in place and
\* unchanged, and only grows at its end; get_events(U) keeps returning what
\* it returned as long as the same branch is active.
C31_BranchLogAppendOnly ==
    [][last'.op \in LogPreservingOps =>
          /\ \A b \in Branches :
                /\ b \in DOMAIN dolt'.branches
                /\ is_prefix(dolt.branches[b].events, dolt'.branches[b].events)
          /\ dolt'.current = dolt.current =>
                \A universe_id \in UniverseIds :
                    returned_by(dolt, universe_id) \subseteq returned_by(dolt', universe_id)]_vars

\* a travel has appended its event to a branch whose log already held one
C31_Witness ==
    /\ TravelReturned
    /\ Len(ActivePartition(dolt).events) >= 2
    /\ \E b \in Branches : b # dolt.current /\ dolt.branches[b].events = <<>>

\* the Prime entities of the name that have a variant in a universe other
\* than universe_id and none in universe_id
with_variant_elsewhere(entity_name, entity_type, universe_id) ==
    {o \in registered_in_prime(entity_name, entity_type) :
        /\ variants_in(neo4j, o, universe_id) = {}
        /\ \E w \in GraphUniverses :
              w # universe_id /\ variants_in(neo4j, o, w) # {}}

\* C32: the Prime fallback of get_entity_in_universe(name, V) is blocked only
\* by a variant living in V: with nothing of that name in V, a Prime entity
\* whose only variants live in other universes resolves to the Prime id; and
\* the id of a Prime entity that has a variant in V is never returned for V.
C32_OnlyLocalVariantBlocks ==
    last.op = "get_entity_in_universe" =>
        /\ (/\ registered_in(last.name, last.entity_type, last.universe_id) = {}
            /\ variants_of_named(last.name, last.entity_type, last.universe_id) = {}
            /\ with_variant_elsewhere(last.name, last.entity_type,
                                      last.universe_id) # {}) =>
              /\ ~last.raised
              /\ last.entity_id \in registered_in_prime(last.name, last.entity_type)
        /\ \A o \in registered_in_prime(last.name, last.entity_type) :
              variants_in(neo4j, o, last.universe_id) # {} => last.entity_id # o

\* C33: in every state reached by create_branch, checkout_branch,
\* delete_branch and the orchestration operations the root branch 'main'
\* exists and the active branch is one of the existing branches.
C33_MainAndActiveExist ==
    /\ branch_exists(dolt, Main)
    /\ branch_exists(dolt, dolt.current)

\* a branch has been deleted while a fork's branch was active
C33_Witness ==
    /\ last.op = "delete_branch" /\ last.success
    /\ ~branch_exists(dolt, last.source_branch)
    /\ dolt.current # Main

\* C34: in every state reached through the orchestration operations branches
\* and universes correspond one to one: no two universes have the same
\* dolt_branch and every universe's dolt_branch is an existing branch.
C34_BranchPerUniverse ==
    \A u \in StoredUniverses :
        /\ branch_exists(dolt, u.dolt_branch)
        /\ \A v \in StoredUniverses : u.id # v.id => u.dolt_branch # v.dolt_branch

\* the step is a travel_between_worlds call that returned a failure
TravelFailed == pc = 0 /\ pc' = 0 /\ last'.op = "travel_between_worlds"
                /\ ~last'.success /\ ~last'.raised

\* C35: a travel_between_worlds that fails because the source or the
\* destination universe is missing changes nothing; one that fails because
\* the traveler is missing or is not a character changes only the active
\* branch, which is left on the source universe's branch: the branches with
\* their entities, events and universes and the graph store are unchanged.
C35_FailedTravelFrame ==
    [][TravelFailed =>
          /\ neo4j' = neo4j /\ nextE' = nextE /\ nextU' = nextU
          /\ dolt'.branches = dolt.branches
          /\ last'.error \in {"Source universe not found",
                               "Destination universe not found"} => dolt' = dolt
          /\ last'.error \in {"Traveler not found in source universe",
                               "Only characters can travel between worlds"} =>
                dolt'.current = get_universe(dolt, last'.universe_id).dolt_branch]_vars

\* a travel from Prime Material, asked while a fork's branch was active, has
\* failed for its traveler and has left 'main' active
C35_Witness ==
    /\ pc = 0 /\ last.op = "travel_between_worlds" /\ ~last.success
    /\ last.error \in {"Traveler not found in source universe",
                        "Only characters can travel between worlds"}
    /\ dolt.current = Main
    /\ \E b \in Branches :
          /\ b # Main
          /\ last.universe_id \in DOMAIN dolt.branches[b].universes
          /\ dolt.branches[b].universes[last.universe_id].dolt_branch = Main
    /\ \A e \in DOMAIN dolt.branches[Main].events :
          dolt.branches[Main].events[e].event_type # "travel"

\* the calls of the store and of the service that C36 names
BranchOps ==
    {"create_branch", "checkout_branch", "delete_branch",
     "initialize_prime_material", "fork_universe", "archive_universe"}

\* the ids of the edges that touch the entity in the universe, of the type if
\* one is given
edges_touching(entity_id, universe_id, relationship_type) ==
    {k \in DOMAIN neo4j.relates :
        /\ \/ neo4j.relates[k].from_entity_id = entity_id
           \/ neo4j.relates[k].to_entity_id = entity_id
        /\ neo4j.relates[k].universe_id = universe_id
        /\ relationship_type # "" => neo4j.relates[k].type = relationship_type}

\* C36: the graph store is independent of the branches: create_branch,
\* checkout_branch, delete_branch, fork_universe and archive_universe leave
\* every relationship and every variant link unchanged, and whichever branch
\* is active get_relationships(e, U) returns exactly the edges touching e
\* whose universe_id is U, only those of the given type when one is passed.
C36_GraphIgnoresBranches ==
    [][/\ last'.op \in BranchOps => neo4j' = neo4j
       /\ \A entity_id \in EntityIds, universe_id \in GraphUniverses,
             relationship_type \in RelationshipTypes \cup {""} :
             {r.id : r \in get_relationships(neo4j, entity_id, universe_id,
                                             relationship_type)}
                 = edges_touching(entity_id, universe_id, relationship_type)]_vars

\* a fork has made its branch active while an entity had edges in two
\* universes, or of two types
C36_Witness ==
    /\ last.op = "fork_universe" /\ last.success /\ dolt.current # Main
    /\ \E entity_id \in EntityIds, universe_id \in GraphUniverses :
          /\ edges_touching(entity_id, universe_id, "KNOWS") # {}
          /\ edges_touching(entity_id, universe_id, "KNOWS")
                # UNION {edges_touching(entity_id, u, "") : u \in GraphUniverses}

\* C37: a relationship is a directed edge and reads keep its direction: a
\* relationship that get_relationships returns, asked at either end, has the
\* from_entity_id and to_entity_id it was created with; every edge touching
\* the entity in the universe is returned; and after delete_relationship(id)
\* no read at either end returns a relationship with that id.
C37_ReadsKeepDirection ==
    /\ last.op = "get_relationships" =>
          /\ {r.id : r \in last.relationships}
                = edges_touching(last.entity_id, last.universe_id, last.relationship_type)
          /\ \A r \in last.relationships :
                /\ r.from_entity_id = neo4j.relates[r.id].from_entity_id
                /\ r.to_entity_id = neo4j.relates[r.id].to_entity_id
    /\ last.op = "delete_relationship" =>
          \A entity_id \in {last.relationship.from_entity_id,
                             last.relationship.to_entity_id} :
              \A r \in get_relationships(neo4j, entity_id,
                                         last.relationship.universe_id, "") :
                  r.id # last.relationship.id

\* the entities joined to one of the given ones by an edge of the universe
joined_to(entities, universe_id) ==
    UNION {neighbours(neo4j, e, {universe_id}) : e \in entities}

\* the entities reached from the given ones by 1 to n hops over the edges of
\* the universe, followed in either direction
RECURSIVE reached_within(_, _, _)
reached_within(entities, universe_id, n) ==
    IF n = 0 THEN {}
    ELSE joined_to(entities, universe_id)
            \cup reached_within(joined_to(entities, universe_id), universe_id, n - 1)

\* C38: find_connected_entities(e, U, max_depth) returns exactly the
\* entities reached from e by at least one and at most max_depth hops over
\* edges of universe U, followed in either direction.
C38_ConnectedWithinDepth ==
    last.op = "find_connected_entities" =>
        /\ ~last.raised
        /\ last.relationships
              = reached_within({last.entity_id}, last.universe_id, last.max_depth)

\* path goes from a to b over edges of the universe
is_path(path, a, b, universe_id) ==
    /\ Len(path) >= 2
    /\ path[1] = a /\ path[Len(path)] = b
    /\ \A i \in 1..(Len(path) - 1) :
          path[i + 1] \in neighbours(neo4j, path[i], {universe_id})

\* the node lists of fewer than n nodes
shorter_than(n) ==
    UNION {[1..k -> DOMAIN neo4j.nodes] : k \in 2..(n - 1)}

====
